---------------------------- MODULE Spec2Model ----------------------------
(***************************************************************************)
(* Model of linux/kstrtox.c: strict string to integer / boolean parsing.   *)
(*                                                                         *)
(* A C string is a sequence of character codes (no embedded NUL); reading  *)
(* at or past its length yields the terminator 0.  A 64-bit word is a      *)
(* tuple of four 16-bit limbs, least significant first, so that every      *)
(* intermediate quantity stays within 32 bits while the arithmetic is     *)
(* exactly arithmetic modulo 2^64.                                         *)
(***************************************************************************)
EXTENDS Integers, Sequences, FiniteSets, TLC

VARIABLES
    s,            \* the string handed to the entry point
    base,         \* the base handed to the entry point
    longBits,     \* width of "long" in the build that ran a long wrapper, else 0
    res,          \* contents of the caller's result slot (*res)
    res0,         \* contents of the slot before the call
    ret,          \* value returned by the entry point
    pc            \* "ready" before the call, the entry point's name after

vars == <<s, base, longBits, res, res0, ret, pc>>

-----------------------------------------------------------------------------
(* Characters *)

Ascii ==
    ("0" :> 48) @@ ("1" :> 49) @@ ("2" :> 50) @@ ("3" :> 51) @@ ("4" :> 52) @@
    ("5" :> 53) @@ ("6" :> 54) @@ ("7" :> 55) @@ ("8" :> 56) @@ ("9" :> 57) @@
    ("a" :> 97) @@ ("b" :> 98) @@ ("c" :> 99) @@ ("d" :> 100) @@ ("e" :> 101) @@
    ("f" :> 102) @@ ("g" :> 103) @@ ("n" :> 110) @@ ("o" :> 111) @@
    ("s" :> 115) @@ ("x" :> 120) @@ ("y" :> 121) @@ ("z" :> 122) @@
    ("A" :> 65) @@ ("B" :> 66) @@ ("C" :> 67) @@ ("D" :> 68) @@ ("E" :> 69) @@
    ("F" :> 70) @@ ("G" :> 71) @@ ("N" :> 78) @@ ("O" :> 79) @@
    ("X" :> 88) @@ ("Y" :> 89) @@
    ("+" :> 43) @@ ("-" :> 45) @@ (" " :> 32) @@ ("!" :> 33) @@ ("\n" :> 10)

Ch(c) == Ascii[c]

\* The C string whose characters are the one-character strings of cs.
RECURSIVE Str(_)
Str(cs) == IF cs = <<>> THEN <<>> ELSE <<Ascii[Head(cs)]>> \o Str(Tail(cs))

\* s[i] of the C code (0-based); the terminator at and past the end.
At(str, i) == IF i < Len(str) THEN str[i + 1] ELSE 0

\* s + n of the C code.
Skip(str, n) == SubSeq(str, n + 1, Len(str))

\* _tolower and isxdigit of <ctype.h>, on the ASCII characters.
_tolower(c) == IF Ch("A") <= c /\ c <= Ch("A") + 25 THEN c + 32 ELSE c

isxdigit(c) ==
    \/ Ch("0") <= c /\ c <= Ch("9")
    \/ Ch("a") <= c /\ c <= Ch("f")
    \/ Ch("A") <= c /\ c <= Ch("F")

-----------------------------------------------------------------------------
(* unsigned long long / long long: four 16-bit limbs, modulo 2^64 *)

Limb == 2 ^ 16
LimbMax == Limb - 1

Zero64 == <<0, 0, 0, 0>>
ULLONG_MAX == <<LimbMax, LimbMax, LimbMax, LimbMax>>

\* A small non-negative C value converted to unsigned long long.
U64(n) == <<n % Limb, (n \div Limb) % Limb, 0, 0>>

\* a > b, both unsigned.
GtU64(a, b) ==
    \E i \in 1..4 : a[i] > b[i] /\ \A j \in (i + 1)..4 : a[j] = b[j]

\* a - b modulo 2^64.
Sub64(a, b) ==
    LET d1 == a[1] - b[1]
        w1 == IF d1 < 0 THEN 1 ELSE 0
        d2 == a[2] - b[2] - w1
        w2 == IF d2 < 0 THEN 1 ELSE 0
        d3 == a[3] - b[3] - w2
        w3 == IF d3 < 0 THEN 1 ELSE 0
        d4 == a[4] - b[4] - w3
    IN  <<d1 % Limb, d2 % Limb, d3 % Limb, d4 % Limb>>

\* -a modulo 2^64.
Neg64(a) == Sub64(Zero64, a)

\* a * m + v modulo 2^64, for small m and v.
MulAdd64(a, m, v) ==
    LET p1 == a[1] * m + v
        p2 == a[2] * m + (p1 \div Limb)
        p3 == a[3] * m + (p2 \div Limb)
        p4 == a[4] * m + (p3 \div Limb)
    IN  <<p1 % Limb, p2 % Limb, p3 % Limb, p4 % Limb>>

\* (long long)a < 0 and (long long)a > 0: the sign is bit 63.
IsNeg64(a) == a[4] >= Limb \div 2
IsPos64(a) == ~IsNeg64(a) /\ a # Zero64

\* a & (~0ull << 60): the four top bits of a.
Top4(a) == a[4] \div (Limb \div 2 ^ 4)

\* (T)a widened back to 64 bits, for an unsigned T of the given width:
\* the low bits of a, the rest zero.
CastU(a, bits) ==
    CASE bits = 8  -> <<a[1] % 2 ^ 8, 0, 0, 0>>
      [] bits = 16 -> <<a[1], 0, 0, 0>>
      [] bits = 32 -> <<a[1], a[2], 0, 0>>
      [] bits = 64 -> a

\* Mutant of CastS: the cast names the unsigned type of the same width.
CastS_AsUnsigned(a, bits) == CastU(a, bits)

\* (T)a widened back to 64 bits, for a signed T of the given width:
\* the low bits of a (the conversion wraps, as gcc and clang define it),
\* the rest copies of T's sign bit.
CastS(a, bits) ==
    CASE bits = 8  ->
            LET b == a[1] % 2 ^ 8
            IN  IF b >= 2 ^ 7 THEN <<b + (Limb - 2 ^ 8), LimbMax, LimbMax, LimbMax>>
                ELSE <<b, 0, 0, 0>>
      [] bits = 16 ->
            IF a[1] >= Limb \div 2 THEN <<a[1], LimbMax, LimbMax, LimbMax>>
            ELSE <<a[1], 0, 0, 0>>
      [] bits = 32 ->
            IF a[2] >= Limb \div 2 THEN <<a[1], a[2], LimbMax, LimbMax>>
            ELSE <<a[1], a[2], 0, 0>>
      [] bits = 64 -> a

-----------------------------------------------------------------------------
(* Return codes *)

EINVAL == 22
ERANGE == 34

\* rv of _parse_integer is a 32-bit word: bit 31 is KSTRTOX_OVERFLOW, the
\* bits below it count the characters consumed.
KSTRTOX_OVERFLOW == [bit31 |-> TRUE, low |-> 0]
Rv(n) == [bit31 |-> FALSE, low |-> n]
RvOr(a, b) == [bit31 |-> a.bit31 \/ b.bit31, low |-> a.low]
RvAnd(a, b) == [bit31 |-> a.bit31 /\ b.bit31, low |-> 0]
RvNonZero(a) == a.bit31 \/ a.low # 0

-----------------------------------------------------------------------------
(* The parser *)

\* Mutant of _parse_integer_fixup_radix: "0x" selects radix 16 without a
\* look at the character after it.
fixup_radix_NoXdigitCheck(str, b) ==
    LET b1 == IF b = 0
              THEN IF At(str, 0) = Ch("0")
                   THEN IF _tolower(At(str, 1)) = Ch("x") THEN 16 ELSE 8
                   ELSE 10
              ELSE b
        s1 == IF b1 = 16 /\ At(str, 0) = Ch("0") /\ _tolower(At(str, 1)) = Ch("x")
              THEN Skip(str, 2)
              ELSE str
    IN  [s |-> s1, base |-> b1]

\* Returns the advanced string and the base written back through *base.
_parse_integer_fixup_radix(str, b) ==
    LET b1 == IF b = 0
              THEN IF At(str, 0) = Ch("0")
                   THEN IF _tolower(At(str, 1)) = Ch("x") /\ isxdigit(At(str, 2))
                        THEN 16
                        ELSE 8
                   ELSE 10
              ELSE b
        s1 == IF b1 = 16 /\ At(str, 0) = Ch("0") /\ _tolower(At(str, 1)) = Ch("x")
              THEN Skip(str, 2)
              ELSE str
    IN  [s |-> s1, base |-> b1]

\* The test that guards "overflow = 1" in the digit loop.
OverflowCheck(r, val, b) ==
    /\ Top4(r) # 0
    /\ GtU64(r, Sub64(ULLONG_MAX, U64(val \div b)))

\* The digit loop of _parse_integer from position i on, with the locals
\* res, rv (the count) and overflow.
RECURSIVE ParseLoop(_, _, _, _, _, _)
ParseLoop(str, b, i, r, n, overflow) ==
    LET c == At(str, i)
        isdig == Ch("0") <= c /\ c <= Ch("9")
        islet == Ch("a") <= _tolower(c) /\ _tolower(c) <= Ch("f")
        val == IF isdig THEN c - Ch("0") ELSE _tolower(c) - Ch("a") + 10
    IN  IF c = 0 \/ (~isdig /\ ~islet) \/ val >= b
        THEN [p |-> r, rv |-> IF overflow THEN RvOr(Rv(n), KSTRTOX_OVERFLOW) ELSE Rv(n)]
        ELSE IF OverflowCheck(r, val, b)
             THEN ParseLoop(str, b, i + 1, MulAdd64(r, b, val), n + 1, TRUE)
             ELSE ParseLoop(str, b, i + 1, MulAdd64(r, b, val), n + 1, overflow)

\* Returns rv and the value stored through p.
_parse_integer(str, b) == ParseLoop(str, b, 0, Zero64, 0, FALSE)

\* Every parser returns [ret, res]: the return value and the contents of the
\* slot res points to after the call; out is its contents before.
\* Mutant of KstrtoullChecks: *res is stored before the trailing characters
\* are looked at.
KstrtoullChecks_StoresEarly(str, pi, out) ==
    LET rest == Skip(str, pi.rv.low)
        rest1 == IF At(rest, 0) = Ch("\n") THEN Skip(rest, 1) ELSE rest
    IN  IF RvNonZero(RvAnd(pi.rv, KSTRTOX_OVERFLOW)) THEN [ret |-> -ERANGE, res |-> out]
        ELSE IF ~RvNonZero(pi.rv) THEN [ret |-> -EINVAL, res |-> out]
        ELSE IF At(rest1, 0) # 0 THEN [ret |-> -EINVAL, res |-> pi.p]
        ELSE [ret |-> 0, res |-> pi.p]

\* Mutant of KstrtoullChecks: every newline after the digits is skipped,
\* not one.
RECURSIVE SkipNewlines(_)
SkipNewlines(str) == IF At(str, 0) = Ch("\n") THEN SkipNewlines(Skip(str, 1)) ELSE str

KstrtoullChecks_SkipsNewlines(str, pi, out) ==
    LET rest1 == SkipNewlines(Skip(str, pi.rv.low))
    IN  IF RvNonZero(RvAnd(pi.rv, KSTRTOX_OVERFLOW)) THEN [ret |-> -ERANGE, res |-> out]
        ELSE IF ~RvNonZero(pi.rv) THEN [ret |-> -EINVAL, res |-> out]
        ELSE IF At(rest1, 0) # 0 THEN [ret |-> -EINVAL, res |-> out]
        ELSE [ret |-> 0, res |-> pi.p]

\* _kstrtoull after its two calls: str is s as fixup_radix advanced it, pi
\* is what _parse_integer returned (rv) and stored (_res).
KstrtoullChecks(str, pi, out) ==
    LET rest == Skip(str, pi.rv.low)
        rest1 == IF At(rest, 0) = Ch("\n") THEN Skip(rest, 1) ELSE rest
    IN  IF RvNonZero(RvAnd(pi.rv, KSTRTOX_OVERFLOW)) THEN [ret |-> -ERANGE, res |-> out]
        ELSE IF ~RvNonZero(pi.rv) THEN [ret |-> -EINVAL, res |-> out]
        ELSE IF At(rest1, 0) # 0 THEN [ret |-> -EINVAL, res |-> out]
        ELSE [ret |-> 0, res |-> pi.p]

\* _kstrtoull from its call of _parse_integer on: fix is s and base as
\* fixup_radix left them.
KstrtoullScan(fix, out) == KstrtoullChecks(fix.s, _parse_integer(fix.s, fix.base), out)

_kstrtoull(str, b, out) == KstrtoullScan(_parse_integer_fixup_radix(str, b), out)

kstrtoull(str, b, out) ==
    IF At(str, 0) = Ch("+") THEN _kstrtoull(Skip(str, 1), b, out)
    ELSE _kstrtoull(str, b, out)

\* The local tmp is uninitialized before the inner call and is read only
\* after that call succeeded and wrote it; Zero64 stands for its unread
\* contents.
\* Mutant of KstrtollMinus: the magnitude is tested like a positive number,
\* (long long)tmp < 0, which refuses 2^63.
KstrtollMinus_RejectsMin(r, out) ==
    IF r.ret < 0 THEN [ret |-> r.ret, res |-> out]
    ELSE IF IsNeg64(r.res) THEN [ret |-> -ERANGE, res |-> out]
    ELSE [ret |-> 0, res |-> Neg64(r.res)]

\* Mutant of KstrtollPlus: the test of the sign bit is left out.
KstrtollPlus_NoRangeCheck(r, out) ==
    IF r.ret < 0 THEN [ret |-> r.ret, res |-> out]
    ELSE [ret |-> 0, res |-> r.res]

\* kstrtoll after the inner call returned r = [ret |-> rv, res |-> tmp], on
\* its '-' branch and on its other branch.
KstrtollMinus(r, out) ==
    IF r.ret < 0 THEN [ret |-> r.ret, res |-> out]
    ELSE IF IsPos64(Neg64(r.res)) THEN [ret |-> -ERANGE, res |-> out]
    ELSE [ret |-> 0, res |-> Neg64(r.res)]

KstrtollPlus(r, out) ==
    IF r.ret < 0 THEN [ret |-> r.ret, res |-> out]
    ELSE IF IsNeg64(r.res) THEN [ret |-> -ERANGE, res |-> out]
    ELSE [ret |-> 0, res |-> r.res]

\* Mutant of kstrtoll: the '-' branch calls kstrtoull, which takes a '+'.
kstrtoll_PlusAfterMinus(str, b, out) ==
    IF At(str, 0) = Ch("-")
    THEN KstrtollMinus(kstrtoull(Skip(str, 1), b, Zero64), out)
    ELSE KstrtollPlus(kstrtoull(str, b, Zero64), out)

kstrtoll(str, b, out) ==
    IF At(str, 0) = Ch("-")
    THEN KstrtollMinus(_kstrtoull(Skip(str, 1), b, Zero64), out)
    ELSE KstrtollPlus(kstrtoull(str, b, Zero64), out)

\* An unsigned wrapper after rv = kstrtoull(s, base, &tmp) returned
\* r = [ret |-> rv, res |-> tmp]: tmp != (unsigned long long)(T)tmp, for
\* T of the given width.
NarrowU(r, out, bits) ==
    IF r.ret < 0 THEN [ret |-> r.ret, res |-> out]
    ELSE IF r.res # CastU(r.res, bits) THEN [ret |-> -ERANGE, res |-> out]
    ELSE [ret |-> 0, res |-> CastU(r.res, bits)]

\* A signed wrapper after rv = kstrtoll(s, base, &tmp) returned r:
\* tmp != (long long)(T)tmp.
NarrowS(r, out, bits) ==
    IF r.ret < 0 THEN [ret |-> r.ret, res |-> out]
    ELSE IF r.res # CastS(r.res, bits) THEN [ret |-> -ERANGE, res |-> out]
    ELSE [ret |-> 0, res |-> CastS(r.res, bits)]

_kstrtoul(str, b, out, bits) == NarrowU(kstrtoull(str, b, Zero64), out, bits)
_kstrtol(str, b, out, bits) == NarrowS(kstrtoll(str, b, Zero64), out, bits)
kstrtouint(str, b, out) == NarrowU(kstrtoull(str, b, Zero64), out, 32)
kstrtoint(str, b, out) == NarrowS(kstrtoll(str, b, Zero64), out, 32)
kstrtou16(str, b, out) == NarrowU(kstrtoull(str, b, Zero64), out, 16)
kstrtos16(str, b, out) == NarrowS(kstrtoll(str, b, Zero64), out, 16)
kstrtou8(str, b, out) == NarrowU(kstrtoull(str, b, Zero64), out, 8)
kstrtos8(str, b, out) == NarrowS(kstrtoll(str, b, Zero64), out, 8)

\* The null pointer, as a value no string equals.
NULL == <<-1>>

\* Mutant of kstrtobool: the second character of "off" is matched in lower
\* case only.
kstrtobool_LowerCaseOff(str, out) ==
    IF str = NULL THEN [ret |-> -EINVAL, res |-> out]
    ELSE LET c0 == At(str, 0)
             c1 == At(str, 1)
         IN  CASE c0 \in {Ch("y"), Ch("Y"), Ch("1")} -> [ret |-> 0, res |-> U64(1)]
               [] c0 \in {Ch("n"), Ch("N"), Ch("0")} -> [ret |-> 0, res |-> U64(0)]
               [] c0 \in {Ch("o"), Ch("O")} ->
                    CASE c1 \in {Ch("n"), Ch("N")} -> [ret |-> 0, res |-> U64(1)]
                      [] c1 \in {Ch("f")} -> [ret |-> 0, res |-> U64(0)]
                      [] OTHER -> [ret |-> -EINVAL, res |-> out]
               [] OTHER -> [ret |-> -EINVAL, res |-> out]

\* bool is stored as the word 1 (true) or 0 (false).
kstrtobool(str, out) ==
    IF str = NULL THEN [ret |-> -EINVAL, res |-> out]
    ELSE LET c0 == At(str, 0)
             c1 == At(str, 1)
         IN  CASE c0 \in {Ch("y"), Ch("Y"), Ch("1")} -> [ret |-> 0, res |-> U64(1)]
               [] c0 \in {Ch("n"), Ch("N"), Ch("0")} -> [ret |-> 0, res |-> U64(0)]
               [] c0 \in {Ch("o"), Ch("O")} ->
                    CASE c1 \in {Ch("n"), Ch("N")} -> [ret |-> 0, res |-> U64(1)]
                      [] c1 \in {Ch("f"), Ch("F")} -> [ret |-> 0, res |-> U64(0)]
                      [] OTHER -> [ret |-> -EINVAL, res |-> out]
               [] OTHER -> [ret |-> -EINVAL, res |-> out]

-----------------------------------------------------------------------------
(* Exact arithmetic on naturals of any size, used to build inputs and to
   state what a digit string denotes: a sequence of limbs, least significant
   first, with no leading zero limb (so zero is the empty sequence). *)

RECURSIVE BigNorm(_)
BigNorm(a) ==
    IF a # <<>> /\ a[Len(a)] = 0 THEN BigNorm(SubSeq(a, 1, Len(a) - 1)) ELSE a

\* a * m + v for small m, v.
RECURSIVE BigMulAddFrom(_, _, _, _)
BigMulAddFrom(a, m, carry, i) ==
    IF i > Len(a)
    THEN IF carry = 0 THEN <<>> ELSE <<carry>>
    ELSE LET p == a[i] * m + carry
         IN  <<p % Limb>> \o BigMulAddFrom(a, m, p \div Limb, i + 1)

BigMulAdd(a, m, v) == BigNorm(BigMulAddFrom(a, m, v, 1))

\* a - 1, for a > 0.
RECURSIVE BigDecFrom(_, _)
BigDecFrom(a, i) ==
    IF a[i] > 0 THEN <<a[i] - 1>> \o SubSeq(a, i + 1, Len(a))
    ELSE <<LimbMax>> \o BigDecFrom(a, i + 1)

BigDec(a) == BigNorm(BigDecFrom(a, 1))

\* 2^k.
RECURSIVE BigPow2(_)
BigPow2(k) == IF k < 16 THEN <<2 ^ k>> ELSE <<0>> \o BigPow2(k - 16)

\* The quotient and remainder of a by a small d, limb by limb from the top.
RECURSIVE BigDivModFrom(_, _, _, _)
BigDivModFrom(a, d, i, rem) ==
    IF i = 0 THEN [q |-> <<>>, r |-> rem]
    ELSE LET cur == rem * Limb + a[i]
             lo == BigDivModFrom(a, d, i - 1, cur % d)
         IN  [q |-> lo.q \o <<cur \div d>>, r |-> lo.r]

BigDivMod(a, d) ==
    LET x == BigDivModFrom(a, d, Len(a), 0) IN [q |-> BigNorm(x.q), r |-> x.r]

\* a as an unsigned long long, for a < 2^64; and back.
BigLimb(a, i) == IF i <= Len(a) THEN a[i] ELSE 0
BigTo64(a) == <<BigLimb(a, 1), BigLimb(a, 2), BigLimb(a, 3), BigLimb(a, 4)>>
BigOf64(w) == BigNorm(w)
BigFits64(a) == Len(a) <= 4

\* Order on these numbers.
BigLe(a, b) ==
    \/ Len(a) < Len(b)
    \/ /\ Len(a) = Len(b)
       /\ \/ a = b
          \/ \E i \in 1..Len(a) : a[i] < b[i] /\ \A j \in (i + 1)..Len(a) : a[j] = b[j]

\* The digit characters, by value.
DigitChars ==
    <<"0", "1", "2", "3", "4", "5", "6", "7", "8", "9", "a", "b", "c", "d", "e", "f">>
UpperDigitChars ==
    <<"0", "1", "2", "3", "4", "5", "6", "7", "8", "9", "A", "B", "C", "D", "E", "F">>

\* The canonical text of a in base b: no leading zeros, "0" for zero.
RECURSIVE FormatFrom(_, _, _)
FormatFrom(a, b, chars) ==
    IF a = <<>> THEN <<>>
    ELSE LET dm == BigDivMod(a, b)
         IN  FormatFrom(dm.q, b, chars) \o <<Ch(chars[dm.r + 1])>>

Format(a, b) == IF a = <<>> THEN Str(<<"0">>) ELSE FormatFrom(a, b, DigitChars)
FormatUpper(a, b) == IF a = <<>> THEN Str(<<"0">>) ELSE FormatFrom(a, b, UpperDigitChars)

\* The value of each character as a digit, or -1.
DigitTable ==
    [c \in -1..127 |->
        IF \E d \in 1..16 : Ch(DigitChars[d]) = c \/ Ch(UpperDigitChars[d]) = c
        THEN (CHOOSE d \in 1..16 : Ch(DigitChars[d]) = c \/ Ch(UpperDigitChars[d]) = c) - 1
        ELSE -1]
DigitValue(c) == DigitTable[c]

\* The length of the longest run of digits of base b in str from position
\* i (1-based) on.
RECURSIVE DigitRunFrom(_, _, _)
DigitRunFrom(str, b, i) ==
    IF i <= Len(str) /\ DigitValue(str[i]) >= 0 /\ DigitValue(str[i]) < b
    THEN 1 + DigitRunFrom(str, b, i + 1)
    ELSE 0

DigitRun(str, b) == DigitRunFrom(str, b, 1)

\* The number the first n characters of str, all digits, denote in base b.
RECURSIVE BigValueOf(_, _, _)
BigValueOf(str, b, n) ==
    IF n = 0 THEN <<>>
    ELSE BigMulAdd(BigValueOf(str, b, n - 1), b, DigitValue(str[n]))

BigValue(str, b) == BigValueOf(str, b, Len(str))

-----------------------------------------------------------------------------
(* The calls explored: the string and base handed to an entry point *)

\* Length of the exhaustively enumerated part of a numeric string.
MaxBody == 2
\* Decimal texts of every value 0..MaxValue are tried.
MaxValue == 300
\* Length of what follows the two characters kstrtobool looks at.
MaxTail == 1

Bases == {0} \cup 2..16
\* The enumerated bodies are made of '0', '1', '9' and 'x', which the bases
\* 2..9 read alike, as do 10..15: one of each kind, with 0 and 16.
EnumBases == {0, 2, 8, 10, 16}

\* All strings over alphabet A of length at most n.
RECURSIVE Strings(_, _)
Strings(A, n) ==
    IF n = 0 THEN {<<>>}
    ELSE LET S == Strings(A, n - 1) IN S \cup {x \o <<c>> : x \in S, c \in A}

Chars(cs) == {Ch(c) : c \in cs}

Signs == {Str(<<>>), Str(<<"+">>), Str(<<"-">>)}
DoubleSigns ==
    {Str(<<"+", "+">>), Str(<<"+", "-">>), Str(<<"-", "+">>), Str(<<"-", "-">>), Str(<<" ">>)}
Suffixes == {Str(<<>>), Str(<<"\n">>), Str(<<"\n", "\n">>), Str(<<"g">>)}
Bodies == Strings(Chars({"0", "1", "9", "x"}), MaxBody)

\* Optional sign, short body, trailer, and a short body after two signs or
\* a blank.
EnumStrings ==
    {p \o b \o t : p \in Signs, b \in Bodies, t \in Suffixes}
    \cup {p \o b : p \in DoubleSigns, b \in Bodies}

\* The strings the documentation and the tests of the family name.
NamedStrings ==
    {Str(<<"1", "2", "3", "a", "b", "c">>), Str(<<"1", "2", "3", "\n">>),
     Str(<<"1", "2", "3", "\n", "\n">>), Str(<<" ", " ", " ", "1">>),
     Str(<<"0", "x", "1", "A">>), Str(<<"0", "1", "7">>), Str(<<"1", "0">>),
     Str(<<"0", "X", "f", "F", "\n">>), Str(<<"0", "x", "g">>),
     Str(<<"0", "x", "\n">>), Str(<<"0", "0", "x", "1">>),
     Str(<<"1", "2", "3">>), Str(<<"0", "8">>), Str(<<"0", "x", "x", "1">>),
     Str(<<"f">>), Str(<<"1", "F">>), Str(<<"-", "0", "x", "f", "\n">>),
     Str(<<"+", "0", "X", "7", "f">>), Str(<<"a", "g">>), Str(<<"-", "7", "f", "g">>)}

\* 2^k - 1, 2^k and 2^k + 1 around the limits of every width.
LimitBits == {7, 8, 15, 16, 31, 32, 63, 64}
LimitValues ==
    UNION {{BigDec(BigPow2(k)), BigPow2(k), BigMulAdd(BigPow2(k), 1, 1)} : k \in LimitBits}

RECURSIVE BigOf(_)
BigOf(n) == IF n = 0 THEN <<>> ELSE <<n % Limb>> \o BigOf(n \div Limb)

DecimalValues == LimitValues \cup {BigOf(n) : n \in 0..MaxValue}

\* Canonical decimal texts, signed, with and without the newline.
DecimalStrings ==
    {p \o Format(v, 10) \o t :
        p \in Signs, v \in DecimalValues, t \in {Str(<<>>), Str(<<"\n">>)}}

\* Values at and beyond the top of unsigned long long, written in base b,
\* in either letter case, alone or followed by one more character.
TopValues ==
    {BigDec(BigPow2(63)), BigPow2(63), BigDec(BigPow2(64)), BigPow2(64),
     BigMulAdd(BigPow2(64), 1, 1), BigPow2(68)}
TopStrings(b) ==
    {p \o f \o t :
        p \in {Str(<<>>), Str(<<"-">>)},
        f \in UNION {{Format(v, b), FormatUpper(v, b)} : v \in TopValues},
        t \in {Str(<<>>), Str(<<"1">>), Str(<<"g">>)}}

\* Base 0 reads them back through their "0x" and "0" prefixes.
AutoStrings ==
    {p \o x \o Format(v, 16) \o t :
        p \in {Str(<<>>), Str(<<"-">>)}, x \in {Str(<<"0", "x">>), Str(<<"0", "X">>)},
        v \in TopValues, t \in {Str(<<>>), Str(<<"\n">>)}}
    \cup
    {p \o Str(<<"0">>) \o Format(v, 8) \o t :
        p \in {Str(<<>>), Str(<<"-">>)}, v \in TopValues, t \in {Str(<<>>), Str(<<"\n">>)}}

\* What kstrtobool is given: every choice of its two leading characters,
\* followed by anything, and the null pointer.
BoolStrings ==
    {h \o t :
        h \in Strings(Chars({"y", "Y", "1", "n", "N", "0", "o", "O", "f", "F", "x", " "}), 2),
        t \in Strings(Chars({"F", "!", "z"}), MaxTail)}
    \cup {Str(<<"y", "e", "s", "!">>), Str(<<"1", "z", "z", "z">>), Str(<<"O", "F", "F">>)}
    \cup {NULL}

Calls ==
    EnumStrings \X EnumBases
    \cup NamedStrings \X Bases
    \cup DecimalStrings \X {0, 10}
    \cup UNION {TopStrings(b) \X {b} : b \in 2..16}
    \cup AutoStrings \X {0, 16}
    \cup BoolStrings \X {0}

-----------------------------------------------------------------------------
(* The state machine: one call of one entry point *)

Init ==
    /\ \E c \in Calls : s = c[1] /\ base = c[2]
    /\ longBits = 0
    /\ res \in {U64(0), U64(1)}
    /\ res0 = res
    /\ ret = 0
    /\ pc = "ready"

\* The call of entry point name, which returns r.
Return(name, r) ==
    /\ pc' = name
    /\ ret' = r.ret
    /\ res' = r.res
    /\ UNCHANGED <<s, base, res0>>

\* sizeof(long) * 8 on the builds the file is compiled for: ILP32 and LP64.
LongWidths == {32, 64}

\* The numeric entry points read s[0]: they are given a string.
Call_kstrtoull ==
    /\ pc = "ready" /\ s # NULL
    /\ Return("kstrtoull", kstrtoull(s, base, res))
    /\ UNCHANGED longBits
Call_kstrtoll ==
    /\ pc = "ready" /\ s # NULL
    /\ Return("kstrtoll", kstrtoll(s, base, res))
    /\ UNCHANGED longBits
Call_kstrtoul ==
    /\ pc = "ready" /\ s # NULL
    /\ \E bits \in LongWidths :
          longBits' = bits /\ Return("_kstrtoul", _kstrtoul(s, base, res, bits))
Call_kstrtol ==
    /\ pc = "ready" /\ s # NULL
    /\ \E bits \in LongWidths :
          longBits' = bits /\ Return("_kstrtol", _kstrtol(s, base, res, bits))
Call_kstrtouint ==
    /\ pc = "ready" /\ s # NULL
    /\ Return("kstrtouint", kstrtouint(s, base, res))
    /\ UNCHANGED longBits
Call_kstrtoint ==
    /\ pc = "ready" /\ s # NULL
    /\ Return("kstrtoint", kstrtoint(s, base, res))
    /\ UNCHANGED longBits
Call_kstrtou16 ==
    /\ pc = "ready" /\ s # NULL
    /\ Return("kstrtou16", kstrtou16(s, base, res))
    /\ UNCHANGED longBits
Call_kstrtos16 ==
    /\ pc = "ready" /\ s # NULL
    /\ Return("kstrtos16", kstrtos16(s, base, res))
    /\ UNCHANGED longBits
Call_kstrtou8 ==
    /\ pc = "ready" /\ s # NULL
    /\ Return("kstrtou8", kstrtou8(s, base, res))
    /\ UNCHANGED longBits
Call_kstrtos8 ==
    /\ pc = "ready" /\ s # NULL
    /\ Return("kstrtos8", kstrtos8(s, base, res))
    /\ UNCHANGED longBits
Call_kstrtobool ==
    /\ pc = "ready"
    /\ Return("kstrtobool", kstrtobool(s, res))
    /\ UNCHANGED longBits

Next ==
    \/ Call_kstrtoull
    \/ Call_kstrtoll
    \/ Call_kstrtoul
    \/ Call_kstrtol
    \/ Call_kstrtouint
    \/ Call_kstrtoint
    \/ Call_kstrtou16
    \/ Call_kstrtos16
    \/ Call_kstrtou8
    \/ Call_kstrtos8
    \/ Call_kstrtobool

Spec == Init /\ [][Next]_vars

-----------------------------------------------------------------------------
(* What the call was about, read off the state without the parser: the
   sign, the base and prefix the documentation describes, the run of digits
   and the number it denotes. *)

UnsignedCalls == {"kstrtoull", "_kstrtoul", "kstrtouint", "kstrtou16", "kstrtou8"}
SignedCalls == {"kstrtoll", "_kstrtol", "kstrtoint", "kstrtos16", "kstrtos8"}
NumericCalls == UnsignedCalls \cup SignedCalls

\* Width in bits of the type the called entry point writes.
Width ==
    CASE pc \in {"kstrtoull", "kstrtoll"} -> 64
      [] pc \in {"_kstrtoul", "_kstrtol"} -> longBits
      [] pc \in {"kstrtouint", "kstrtoint"} -> 32
      [] pc \in {"kstrtou16", "kstrtos16"} -> 16
      [] pc \in {"kstrtou8", "kstrtos8"} -> 8

StartsWith(str, cs) == Len(str) >= Len(cs) /\ SubSeq(str, 1, Len(cs)) = Str(cs)
IsSignChar(c) == c = Ch("+") \/ c = Ch("-")

\* The leading '-' the signed family takes as the sign.
Minus == pc \in SignedCalls /\ StartsWith(s, <<"-">>)

\* The string after the one sign character the family accepts.
Unsigned == IF Minus \/ StartsWith(s, <<"+">>) THEN Tail(s) ELSE s

IsHexDigit(c) == DigitValue(c) >= 0

\* The documented radix of string str under requested base b.
DocBase(str, b) ==
    IF b # 0 THEN b
    ELSE IF Len(str) >= 3 /\ str[1] = Ch("0") /\ str[2] \in {Ch("x"), Ch("X")}
            /\ IsHexDigit(str[3])
         THEN 16
    ELSE IF Len(str) >= 1 /\ str[1] = Ch("0") THEN 8
    ELSE 10

\* The documented start of the digits: past "0x"/"0X" in radix 16.
DocDigits(str, b) ==
    IF DocBase(str, b) = 16 /\ (StartsWith(str, <<"0", "x">>) \/ StartsWith(str, <<"0", "X">>))
    THEN SubSeq(str, 3, Len(str))
    ELSE str

\* The documented reading of the call: radix, number of digits, the digits,
\* what follows them, and the number the digits denote.
DocOf(str, b) ==
    LET r == DocBase(str, b)
        d == DocDigits(str, b)
        n == DigitRun(d, r)
    IN  [radix |-> r, start |-> d, run |-> n,
         text |-> SubSeq(d, 1, n), rest |-> SubSeq(d, n + 1, Len(d)),
         magnitude |-> BigValueOf(d, r, n)]

Doc == DocOf(Unsigned, base)

Trailers == {Str(<<>>), Str(<<"\n">>)}

\* Limits of the written type, as numbers: its largest value, and the
\* magnitude of its smallest.
MaxOf(signed, bits) == BigDec(BigPow2(IF signed THEN bits - 1 ELSE bits))
MinMagOf(bits) == BigPow2(bits - 1)
BigInc(a) == BigMulAdd(a, 1, 1)

INVALID == -EINVAL
RANGE == -ERANGE

-----------------------------------------------------------------------------
(* Claims *)

\* C1: a digit run denoting more than 2^64-1 makes _parse_integer flag
\* overflow and kstrtoull return RANGE; kstrtoull never succeeds with a
\* value that wrapped modulo 2^64.
C1_OverflowIsRange ==
    pc = "kstrtoull" =>
        LET d == Doc
        IN  /\ (d.run > 0 /\ ~BigFits64(d.magnitude)) =>
                  /\ _parse_integer(d.start, d.radix).rv.bit31
                  /\ ret = RANGE
            /\ ret = 0 => BigFits64(d.magnitude)

\* C2: for every width, the decimal text of the maximum parses to it, that
\* of maximum + 1 is RANGE; for signed widths "-|MIN|" parses to MIN and
\* "-(|MIN|+1)" is RANGE.
C2_Boundaries ==
    (pc \in NumericCalls /\ base = 10) =>
        LET max == MaxOf(pc \in SignedCalls, Width)
            minmag == MinMagOf(Width)
        IN  /\ s = Format(max, 10) => ret = 0 /\ res = BigTo64(max)
            /\ s = Format(BigInc(max), 10) => ret = RANGE
            /\ pc \in SignedCalls =>
                  /\ s = Str(<<"-">>) \o Format(minmag, 10) =>
                        ret = 0 /\ res = Neg64(BigTo64(minmag))
                  /\ s = Str(<<"-">>) \o Format(BigInc(minmag), 10) => ret = RANGE

\* C3: whenever an entry point returns an error, the result slot holds its
\* value from before the call.
C3_SlotUntouchedOnError ==
    pc # "ready" => /\ ret \in {0, INVALID, RANGE}
                    /\ ret # 0 => res = res0

C3_Witness ==
    /\ pc = "kstrtou8" /\ ret = RANGE /\ res = res0
    /\ s = Str(<<"2", "5", "6">>) /\ base = 10

\* C4: a numeric parser succeeds only when at least one digit was consumed
\* and what follows the digits is nothing or exactly one newline; no digit,
\* or anything else after the digits, is INVALID.
C4_StrictTrailer ==
    pc \in NumericCalls =>
        LET d == Doc
        IN  /\ ret = 0 => d.run > 0 /\ d.rest \in Trailers
            /\ d.run = 0 => ret = INVALID
            /\ d.rest \notin Trailers => ret = INVALID
            /\ (base = 10 /\ s \in {Str(<<"1", "2", "3", "a", "b", "c">>),
                                    Str(<<"1", "2", "3", "\n", "\n">>),
                                    Str(<<" ", " ", " ", "1">>), Str(<<>>)}) => ret = INVALID
            /\ (base = 10 /\ s = Str(<<"1", "2", "3", "\n">>)) => ret = 0 /\ res = U64(123)

C4_Witness ==
    /\ pc = "kstrtoull" /\ base = 10 /\ s = Str(<<"1", "2", "3", "\n">>)
    /\ ret = 0 /\ res = U64(123)

\* C5: one sign at most.  The unsigned family takes one '+' and answers
\* INVALID to a leading '-'; the signed family takes one '+' or '-' and
\* negates on '-'; a second sign character or a sign alone is INVALID.
C5_OneSign ==
    pc \in NumericCalls =>
        /\ (pc \in UnsignedCalls /\ StartsWith(s, <<"-">>)) => ret = INVALID
        /\ (Len(s) >= 2 /\ IsSignChar(s[1]) /\ IsSignChar(s[2])) => ret = INVALID
        /\ (Len(s) = 1 /\ IsSignChar(s[1])) => ret = INVALID
        /\ ret = 0 =>
              res = IF Minus THEN Neg64(BigTo64(Doc.magnitude)) ELSE BigTo64(Doc.magnitude)
        /\ (base = 10 /\ s = Str(<<"+", "1">>)) => ret = 0 /\ res = U64(1)
        /\ (base = 10 /\ s = Str(<<"-", "1">>) /\ pc \in SignedCalls) =>
              ret = 0 /\ res = Neg64(U64(1))

C5_Witness ==
    /\ pc = "kstrtoll" /\ base = 10 /\ s = Str(<<"-", "1">>)
    /\ ret = 0 /\ res = ULLONG_MAX

\* C6: the radix, resolved on the string after the sign: with base 0 it is
\* 16 iff the string starts with '0', 'x' or 'X', a hex digit, else 8 if it
\* starts with '0', else 10; in radix 16 a leading "0x"/"0X" is skipped;
\* the resolved radix is in 2..16.
C6_RadixResolution ==
    pc \in NumericCalls =>
        LET u == Unsigned
            fix == _parse_integer_fixup_radix(u, base)
        IN  /\ fix.base = DocBase(u, base)
            /\ fix.s = DocDigits(u, base)
            /\ fix.base \in 2..16
            /\ base = 0 =>
                  /\ s = Str(<<"0", "x", "1", "A">>) => ret = 0 /\ res = U64(26)
                  /\ s = Str(<<"0", "1", "7">>) => ret = 0 /\ res = U64(15)
                  /\ s = Str(<<"1", "0">>) => ret = 0 /\ res = U64(10)
                  /\ s = Str(<<"0">>) => ret = 0 /\ res = U64(0)
                  /\ (Len(s) >= 2 /\ s[1] = Ch("0") /\ s[2] \in {Ch("x"), Ch("X")}
                        /\ ~(Len(s) >= 3 /\ IsHexDigit(s[3]))) => ret = INVALID

C6_Witness ==
    /\ pc = "kstrtoull" /\ base = 0 /\ s = Str(<<"0", "x", "1", "A">>)
    /\ ret = 0 /\ res = U64(26)

\* C7: kstrtobool decides on the first one or two characters alone: null
\* and "" are INVALID; 'y', 'Y', '1' give true; 'n', 'N', '0' give false;
\* 'o'/'O' gives true before 'n'/'N', false before 'f'/'F', else INVALID;
\* any other first character is INVALID.
C7_BoolByLeadingChars ==
    pc = "kstrtobool" =>
        LET c0 == IF s # NULL /\ Len(s) >= 1 THEN s[1] ELSE 0
            c1 == IF s # NULL /\ Len(s) >= 2 THEN s[2] ELSE 0
            true == ret = 0 /\ res = U64(1)
            false == ret = 0 /\ res = U64(0)
            invalid == ret = INVALID /\ res = res0
        IN  /\ (s = NULL \/ s = Str(<<>>)) => invalid
            /\ CASE c0 \in Chars({"y", "Y", "1"}) -> true
                 [] c0 \in Chars({"n", "N", "0"}) -> false
                 [] c0 \in Chars({"o", "O"}) /\ c1 \in Chars({"n", "N"}) -> true
                 [] c0 \in Chars({"o", "O"}) /\ c1 \in Chars({"f", "F"}) -> false
                 [] OTHER -> invalid
            /\ s = Str(<<"O", "F", "F">>) => false
            /\ s = Str(<<"y", "e", "s", "!">>) => true
            /\ s = Str(<<"1", "z", "z", "z">>) => true

C7_Witness ==
    /\ pc = "kstrtobool" /\ s = Str(<<"O", "F", "F">>)
    /\ res0 = U64(1) /\ ret = 0 /\ res = U64(0)

\* The canonical decimal text of a number: "0", or digits not starting
\* with '0', after a '-' for a negative number of a signed type.
CanonicalDecimal ==
    LET digits == IF Minus THEN Tail(s) ELSE s
    IN  /\ digits # <<>>
        /\ \A i \in 1..Len(digits) : Ch("0") <= digits[i] /\ digits[i] <= Ch("9")
        /\ digits[1] = Ch("0") => Len(digits) = 1 /\ ~Minus

\* C8: the canonical decimal text of every value of the written type
\* parses, in base 10 and in base 0, to that value.
C8_DecimalRoundTrip ==
    (pc \in NumericCalls /\ base \in {0, 10} /\ CanonicalDecimal) =>
        LET v == BigValue(IF Minus THEN Tail(s) ELSE s, 10)
            inrange == IF Minus THEN BigLe(v, MinMagOf(Width))
                       ELSE BigLe(v, MaxOf(pc \in SignedCalls, Width))
        IN  inrange => /\ ret = 0
                       /\ res = IF Minus THEN Neg64(BigTo64(v)) ELSE BigTo64(v)

C8_Witness ==
    /\ pc = "kstrtoint" /\ base = 0
    /\ s = Str(<<"-">>) \o Format(BigPow2(31), 10)
    /\ ret = 0 /\ res = <<0, Limb \div 2, LimbMax, LimbMax>>

\* C9: in kstrtoll, when the unsigned parse of the magnitude succeeds with
\* m: after '-', success with -m if m <= 2^63 and RANGE otherwise; without
\* '-', success with m if m <= 2^63 - 1 and RANGE otherwise.  An error of
\* the unsigned parse is returned as it is.
C9_SignedRange ==
    pc = "kstrtoll" =>
        LET u == IF Minus THEN _kstrtoull(Tail(s), base, Zero64)
                 ELSE kstrtoull(s, base, Zero64)
            m == BigOf64(u.res)
        IN  IF u.ret # 0 THEN ret = u.ret /\ res = res0
            ELSE IF Minus
                 THEN IF BigLe(m, BigPow2(63)) THEN ret = 0 /\ res = Neg64(u.res)
                      ELSE ret = RANGE
                 ELSE IF BigLe(m, BigDec(BigPow2(63))) THEN ret = 0 /\ res = u.res
                      ELSE ret = RANGE

C9_Witness ==
    /\ pc = "kstrtoll" /\ base = 10
    /\ s = Str(<<"-">>) \o Format(BigPow2(63), 10)
    /\ ret = 0 /\ res = <<0, 0, 0, Limb \div 2>>

\* v, a 64-bit word read as signed or unsigned, lies within the limits of
\* the type of the given width.
Fits(v, signed, bits) ==
    IF ~signed THEN BigLe(BigOf64(v), MaxOf(FALSE, bits))
    ELSE IF v[4] >= Limb \div 2 THEN BigLe(BigOf64(Neg64(v)), MinMagOf(bits))
    ELSE BigLe(BigOf64(v), MaxOf(TRUE, bits))

\* C10: when the 64-bit parse under a narrowing wrapper succeeds with v,
\* the wrapper succeeds and writes v iff MIN_T <= v <= MAX_T, and returns
\* RANGE otherwise; an error of the 64-bit parse is returned as it is.
C10_Narrowing ==
    (pc \in NumericCalls \ {"kstrtoull", "kstrtoll"}) =>
        LET w == IF pc \in SignedCalls THEN kstrtoll(s, base, Zero64)
                 ELSE kstrtoull(s, base, Zero64)
        IN  IF w.ret # 0 THEN ret = w.ret /\ res = res0
            ELSE IF Fits(w.res, pc \in SignedCalls, Width) THEN ret = 0 /\ res = w.res
            ELSE ret = RANGE /\ res = res0

C10_Witness ==
    /\ pc = "kstrtos8" /\ base = 10 /\ s = Str(<<"-", "1", "2", "8">>)
    /\ ret = 0 /\ res = <<LimbMax - 127, LimbMax, LimbMax, LimbMax>>

=============================================================================
